---- MODULE Spec2Model ----
(***************************************************************************)
(* Model of the TWT demo application (src/main.c): the console task that   *)
(* initialises the Wi-Fi connection manager, connects at boot, registers   *)
(* the itwt commands and starts the watchdog-petting timer; the command     *)
(* handlers itwt_setup and itwt_teardown; the bounded retry loop            *)
(* ConnectWifi; and the timer callback wdt_handler.                         *)
(*                                                                          *)
(* Two threads of the program call into this code: "worker" is the         *)
(* ConsoleTask thread created by main (it runs console_task), "console" is *)
(* the thread of the command console library (console_cfg.thread_priority, *)
(* main.c:349) that runs the registered handlers.  The timer callback runs *)
(* in the RTOS timer context.  Every function's locals are kept per        *)
(* thread; conn_params and the connection manager's association state are  *)
(* globals.                                                                 *)
(*                                                                          *)
(* The wireless connection service (WCM and WHD calls) is external: each   *)
(* call has a nondeterministic outcome.  A successful associate leaves the *)
(* station associated, a failed one leaves it not associated, a successful *)
(* disconnect leaves it not associated, a failed one changes nothing.  The *)
(* link is not dropped spontaneously.                                       *)
(***************************************************************************)
EXTENDS Integers, Sequences, FiniteSets, TLC

\* ------------------------------------------------------------------ bounds
MaxCmds == 2      \* command lines dispatched in one run
MaxTicks == 2     \* expirations of the periodic timer in one run

\* ------------------------------------------------------- program constants
MAX_WIFI_CONN_RETRIES == 15
CY_RSLT_ERROR == -1
TWT_CTRL_NEGO_TYPE_0 == 0
WDT_MARGIN == 5
IP_STR_LEN == 16

\* The argument of thread_ap_watchdog_ConfigureTime counts units of 1000 ms.
MS_PER_UNIT == 1000

\* a timer interval one unit longer than the watchdog margin
WDT_TIMEOUT_MS_long == (WDT_MARGIN + 1) * MS_PER_UNIT

WDT_TIMEOUT_MS == 4000

\* Interval of wdt_timer_t in watchdog units.
WdtPeriod == WDT_TIMEOUT_MS \div MS_PER_UNIT

Threads == {"worker", "console"}

\* ------------------------------------------------ 32-bit result codes
\* cy_rslt_t is an unsigned 32-bit value, kept as two 16-bit halves; the
\* handlers return it as an int.
U32(i) == [hi |-> (i \div 65536) % 65536, lo |-> i % 65536]

ToInt(u) == (IF u.hi >= 32768 THEN u.hi - 65536 ELSE u.hi) * 65536 + u.lo

CY_RSLT_SUCCESS == U32(0)

\* Error codes the wireless connection service may report.
SvcErrCodes == {U32(1), [hi |-> 32770, lo |-> 7], U32(-1)}

\* Error code of a failed associate call (ConnectWifi only tests it against
\* CY_RSLT_SUCCESS).
AssocErrCodes == {[hi |-> 32770, lo |-> 7]}

\* ------------------------------------------------ IPv4 address text
\* Addresses the service hands out in a run: 192.168.1.10 and
\* 255.255.255.255, as the 32-bit value ip.v4 (first octet in the low byte).
IpSamples == {[hi |-> 2561, lo |-> 43200], [hi |-> 65535, lo |-> 65535]}

\* (ip >> 8*k) & 0xFF
Byte(ip, k) == CASE k = 0 -> ip.lo % 256
                 [] k = 1 -> (ip.lo \div 256) % 256
                 [] k = 2 -> ip.hi % 256
                 [] k = 3 -> (ip.hi \div 256) % 256

Digit(d) == <<"0", "1", "2", "3", "4", "5", "6", "7", "8", "9">>[d + 1]

\* the characters "%lu" writes for n
RECURSIVE DecDigits(_)
DecDigits(n) == IF n < 10 THEN <<Digit(n)>>
                ELSE Append(DecDigits(n \div 10), Digit(n % 10))

\* the fields written most significant byte first
get_ip_string_msb(ip) ==
    DecDigits(Byte(ip, 3)) \o <<".">> \o DecDigits(Byte(ip, 2)) \o <<".">>
        \o DecDigits(Byte(ip, 1)) \o <<".">> \o DecDigits(Byte(ip, 0))

\* main.c:150-157: the characters sprintf stores in buffer, without the
\* terminating NUL
get_ip_string(ip) ==
    DecDigits(Byte(ip, 0)) \o <<".">> \o DecDigits(Byte(ip, 1)) \o <<".">>
        \o DecDigits(Byte(ip, 2)) \o <<".">> \o DecDigits(Byte(ip, 3))

\* ------------------------------------------------ connection parameters
WIFI_SSID == ""
WIFI_KEY == ""
WIFI_SECURITY == "CY_WCM_SECURITY_WPA2_AES_PSK"
WIFI_BAND == "CY_WCM_WIFI_BAND_ANY"

Profiles == {"CY_WCM_ITWT_PROFILE_NONE", "CY_WCM_ITWT_PROFILE_ACTIVE",
             "CY_WCM_ITWT_PROFILE_IDLE"}

\* conn_params after memset(&conn_params, 0, ...)
ZeroedParams == [SSID |-> "", password |-> "", security |-> "0",
                 band |-> "0", itwt_profile |-> "0"]

\* conn_params filled with a band that depends on the profile
FilledParams_band_by_profile(p) ==
    [SSID |-> WIFI_SSID, password |-> WIFI_KEY, security |-> WIFI_SECURITY,
     band |-> IF p = "CY_WCM_ITWT_PROFILE_NONE" THEN WIFI_BAND
              ELSE "CY_WCM_WIFI_BAND_2_4GHZ",
     itwt_profile |-> p]

\* conn_params filled without the assignment of itwt_profile (main.c:291):
\* the profile stays as memset left it
FilledParams_no_profile(p) == [SSID |-> WIFI_SSID, password |-> WIFI_KEY,
                               security |-> WIFI_SECURITY, band |-> WIFI_BAND,
                               itwt_profile |-> "0"]

\* conn_params as filled at the top of every loop iteration
FilledParams(p) == [SSID |-> WIFI_SSID, password |-> WIFI_KEY,
                    security |-> WIFI_SECURITY, band |-> WIFI_BAND,
                    itwt_profile |-> p]

\* ------------------------------------------------ command lines
\* Profile tokens a user may type after itwt_setup.
Tokens == {"active", "idle", "Active", "idle2", ""}

\* argv as the console library hands it to a handler: argv[0] is the
\* command name, argc counts it.
CommandLines ==
    {[i \in 0..0 |-> "itwt_setup"], [i \in 0..0 |-> "itwt_teardown"]}
    \cup {[i \in 0..1 |-> IF i = 0 THEN "itwt_setup" ELSE tok] : tok \in Tokens}

Argc(line) == Cardinality(DOMAIN line)

\* the table with itwt_setup declared as taking no argument
itwt_commands_table_no_min == [itwt_setup |-> 0, itwt_teardown |-> 0]

\* itwt_commands_table: command name -> declared minimum argument count
itwt_commands_table == [itwt_setup |-> 1, itwt_teardown |-> 0]

MinArgs(name) == IF name = "itwt_setup" THEN itwt_commands_table.itwt_setup
                 ELSE itwt_commands_table.itwt_teardown

\* the request with the teardown-all flag set
TeardownParams_all == [negotiation_type |-> TWT_CTRL_NEGO_TYPE_0,
                       flow_id |-> 0, bcast_twt_id |-> 0,
                       teardown_all_twt |-> 1]

\* teardown request built by itwt_teardown
TeardownParams == [negotiation_type |-> TWT_CTRL_NEGO_TYPE_0, flow_id |-> 0,
                   bcast_twt_id |-> 0, teardown_all_twt |-> 0]

\* an uninitialised whd_twt_teardown_params_t on the stack
Garbage(g) == [negotiation_type |-> g, flow_id |-> g, bcast_twt_id |-> g,
               teardown_all_twt |-> g]

\* console_task with the boot-time connect moved to the end of the start-up
console_task_order_connect_last ==
    <<"cy_wcm_init", "command_console_add_command", "cy_rtos_init_timer",
      "cy_rtos_start_timer", "thread_ap_watchdog_ConfigureTime",
      "ConnectWifi", "idle">>

\* console_task with the commands registered before the boot-time connect
console_task_order_early == <<"cy_wcm_init", "command_console_add_command",
                              "ConnectWifi", "cy_rtos_init_timer",
                              "cy_rtos_start_timer",
                              "thread_ap_watchdog_ConfigureTime", "idle">>

\* statements of console_task, in program order
console_task_order == <<"cy_wcm_init", "ConnectWifi",
                        "command_console_add_command", "cy_rtos_init_timer",
                        "cy_rtos_start_timer",
                        "thread_ap_watchdog_ConfigureTime", "idle">>

VARIABLES
    wpc,          \* worker: index into console_task_order, 0 = returned
    task_result,  \* console_task's local result
    cpc,          \* console thread: position in the running handler
    cw,           \* per thread: position inside ConnectWifi, "none" outside
    retry_count,  \* per thread: ConnectWifi's retry_count
    profile,      \* per thread: ConnectWifi's profile argument
    cw_result,    \* per thread: ConnectWifi's local result
    cw_ret,       \* per thread: value returned by the last ConnectWifi
    ip_addr,      \* per thread: ConnectWifi's ip_addr.ip.v4
    ip_printed,   \* per thread: address text printed by the last ConnectWifi
    conn_params,  \* global conn_params
    connected,    \* what cy_wcm_is_connected_to_ap() reports
    registered,   \* itwt_commands_table is registered with the console
    wdt_timer,    \* "none" | "created" | "armed"
    wdt_time,     \* last value given to thread_ap_watchdog_ConfigureTime
    ticks,        \* expirations of wdt_timer_t so far
    timer_left,   \* units left until the next expiration of wdt_timer_t
    wdt_left,     \* units left until the watchdog deadline
    argv,         \* argument vector of the running handler
    result,       \* handler local result
    twt_params,   \* itwt_teardown's local request
    td_requests,  \* requests handed to whd_wifi_twt_teardown
    returned,     \* the last dispatched command has returned
    cmd_result,   \* status returned for the last dispatched command
    ncmds,        \* command lines dispatched so far
    trace,        \* per thread: service calls and delays of the current
                  \* top-level invocation
    conn_at_call  \* association state when the running handler was called

vars == <<wpc, task_result, cpc, cw, retry_count, profile, cw_result, cw_ret, ip_addr,
          ip_printed, conn_params,
          connected, registered, wdt_timer, wdt_time, ticks, timer_left,
          wdt_left, argv, result,
          twt_params, td_requests, returned, cmd_result, ncmds, trace,
          conn_at_call>>

workerVars == <<wpc, task_result>>
consoleVars == <<cpc, argv, result, twt_params, td_requests, returned,
                 cmd_result, ncmds, conn_at_call>>
connectVars == <<cw, retry_count, profile, cw_result, cw_ret, ip_addr,
                 ip_printed>>
timerVars == <<wdt_timer, wdt_time, ticks, timer_left, wdt_left>>

Init ==
    /\ wpc = 1
    /\ task_result = CY_RSLT_SUCCESS
    /\ cpc = "wait"
    /\ cw = [t \in Threads |-> "none"]
    /\ retry_count = [t \in Threads |-> 0]
    /\ profile = [t \in Threads |-> "CY_WCM_ITWT_PROFILE_NONE"]
    /\ cw_result = [t \in Threads |-> CY_RSLT_SUCCESS]
    /\ cw_ret = [t \in Threads |-> CY_RSLT_SUCCESS]
    /\ ip_addr = [t \in Threads |-> U32(0)]
    /\ ip_printed = [t \in Threads |-> <<>>]
    /\ conn_params = ZeroedParams
    /\ connected = FALSE
    /\ registered = FALSE
    /\ wdt_timer = "none"
    /\ wdt_time = 0
    /\ ticks = 0
    /\ timer_left = 0
    /\ wdt_left = 0
    /\ argv = [i \in 0..0 |-> ""]
    /\ result = CY_RSLT_SUCCESS
    /\ twt_params = Garbage(0)
    /\ td_requests = {}
    /\ returned = FALSE
    /\ cmd_result = 0
    /\ ncmds = 0
    /\ trace = [t \in Threads |-> <<>>]
    /\ conn_at_call = FALSE

Step(s) == wpc \in 1..Len(console_task_order) /\ console_task_order[wpc] = s

\* One entry of trace: a call to the wireless connection service (or a
\* delay), the code it returned and the conn_params it was given.
Event(op, code) == [op |-> op, ok |-> code = CY_RSLT_SUCCESS, code |-> code,
                    params |-> conn_params, ip |-> U32(0)]

Log(t, e) == trace' = [trace EXCEPT ![t] = Append(@, e)]

\* Entries of thread t's trace for operation op.
Calls(t, op) == {i \in DOMAIN trace[t] : trace[t][i].op = op}

\* ------------------------------------------------------------ ConnectWifi
\* a call of ConnectWifi whose counter starts at 1
ConnectWifi_enter_from_one(t, p) ==
    /\ cw' = [cw EXCEPT ![t] = "fill"]
    /\ retry_count' = [retry_count EXCEPT ![t] = 1]
    /\ profile' = [profile EXCEPT ![t] = p]
    /\ conn_params' = ZeroedParams
    /\ ip_printed' = [ip_printed EXCEPT ![t] = <<>>]
    /\ UNCHANGED <<cw_result, cw_ret, ip_addr>>

\* Call of ConnectWifi(p) by thread t: locals initialised, conn_params
\* cleared (main.c:269-280).
ConnectWifi_enter(t, p) ==
    /\ cw' = [cw EXCEPT ![t] = "fill"]
    /\ retry_count' = [retry_count EXCEPT ![t] = 0]
    /\ profile' = [profile EXCEPT ![t] = p]
    /\ conn_params' = ZeroedParams
    /\ ip_printed' = [ip_printed EXCEPT ![t] = <<>>]
    /\ UNCHANGED <<cw_result, cw_ret, ip_addr>>

\* main.c:287-291
ConnectWifi_fill(t) ==
    /\ cw[t] = "fill"
    /\ conn_params' = FilledParams(profile[t])
    /\ cw' = [cw EXCEPT ![t] = "associate"]
    /\ UNCHANGED <<retry_count, profile, cw_result, cw_ret, ip_addr,
                   ip_printed, connected, trace>>
    /\ UNCHANGED <<workerVars, consoleVars, timerVars, registered>>

\* main.c:293, the call succeeds
ConnectWifi_associate_ok(t) ==
    /\ cw[t] = "associate"
    /\ cw_result' = [cw_result EXCEPT ![t] = CY_RSLT_SUCCESS]
    /\ connected' = TRUE
    /\ \E ip \in IpSamples :
          /\ ip_addr' = [ip_addr EXCEPT ![t] = ip]
          /\ Log(t, [Event("associate", CY_RSLT_SUCCESS) EXCEPT !.ip = ip])
    /\ cw' = [cw EXCEPT ![t] = "delay"]
    /\ UNCHANGED <<retry_count, profile, cw_ret, ip_printed, conn_params>>
    /\ UNCHANGED <<workerVars, consoleVars, timerVars, registered>>

\* main.c:293, the call fails
ConnectWifi_associate_fail(t) ==
    /\ cw[t] = "associate"
    /\ \E code \in AssocErrCodes :
          /\ cw_result' = [cw_result EXCEPT ![t] = code]
          /\ Log(t, Event("associate", code))
    /\ connected' = FALSE
    /\ cw' = [cw EXCEPT ![t] = "delay"]
    /\ UNCHANGED <<retry_count, profile, cw_ret, ip_addr, ip_printed,
                   conn_params>>
    /\ UNCHANGED <<workerVars, consoleVars, timerVars, registered>>

\* main.c:294
ConnectWifi_delay(t) ==
    /\ cw[t] = "delay"
    /\ Log(t, Event("delay", CY_RSLT_SUCCESS))
    /\ cw' = [cw EXCEPT ![t] = "check"]
    /\ UNCHANGED <<retry_count, profile, cw_result, cw_ret, ip_addr,
                   ip_printed, conn_params, connected>>
    /\ UNCHANGED <<workerVars, consoleVars, timerVars, registered>>

\* a budget one attempt short
RetriesExhausted_early(rc) == rc >= MAX_WIFI_CONN_RETRIES - 1

\* the test of main.c:299 written with > instead of >=
RetriesExhausted_gt(rc) == rc > MAX_WIFI_CONN_RETRIES

\* main.c:299
RetriesExhausted(rc) == rc >= MAX_WIFI_CONN_RETRIES

\* a console_task that returns when the boot-time ConnectWifi failed
ConnectWifi_return_fatal(t, val) ==
    /\ cw' = [cw EXCEPT ![t] = "none"]
    /\ cw_ret' = [cw_ret EXCEPT ![t] = val]
    /\ retry_count' = [retry_count EXCEPT ![t] = 0]
    /\ cw_result' = [cw_result EXCEPT ![t] = CY_RSLT_SUCCESS]
    /\ ip_addr' = [ip_addr EXCEPT ![t] = U32(0)]
    /\ IF t = "worker"
         THEN /\ wpc' = IF val = CY_RSLT_SUCCESS THEN wpc + 1 ELSE 0
              /\ UNCHANGED <<cpc, result>>
         ELSE /\ cpc' = "setup_return"
              /\ result' = val
              /\ UNCHANGED wpc

\* Return of ConnectWifi to its caller: console_task drops the value
\* (main.c:438), itwt_setup stores it in result (main.c:197, 201).
ConnectWifi_return(t, val) ==
    /\ cw' = [cw EXCEPT ![t] = "none"]
    /\ cw_ret' = [cw_ret EXCEPT ![t] = val]
    /\ retry_count' = [retry_count EXCEPT ![t] = 0]
    /\ cw_result' = [cw_result EXCEPT ![t] = CY_RSLT_SUCCESS]
    /\ ip_addr' = [ip_addr EXCEPT ![t] = U32(0)]
    /\ IF t = "worker"
         THEN /\ wpc' = wpc + 1
              /\ UNCHANGED <<cpc, result>>
         ELSE /\ cpc' = "setup_return"
              /\ result' = val
              /\ UNCHANGED wpc

\* main.c:296-316 with the return of line 302 replaced by a break: the loop
\* ends after the last failure and line 316 returns CY_RSLT_SUCCESS
ConnectWifi_check_break(t) ==
    /\ cw[t] = "check"
    /\ IF cw_result[t] # CY_RSLT_SUCCESS
            /\ ~RetriesExhausted(retry_count[t] + 1)
         THEN /\ retry_count' = [retry_count EXCEPT ![t] = @ + 1]
              /\ cw' = [cw EXCEPT ![t] = "fill"]
              /\ UNCHANGED <<cw_result, cw_ret, ip_addr, ip_printed, wpc, cpc,
                             result>>
         ELSE /\ ConnectWifi_return(t, CY_RSLT_SUCCESS)
              /\ ip_printed' = [ip_printed EXCEPT ![t] =
                                   IF cw_result[t] = CY_RSLT_SUCCESS
                                     THEN get_ip_string(ip_addr[t]) ELSE @]
    /\ UNCHANGED <<profile, conn_params, connected, trace>>
    /\ UNCHANGED <<argv, twt_params, td_requests, returned, cmd_result, ncmds,
                   conn_at_call, timerVars, registered, task_result>>

\* main.c:296-316 with a success on the first attempt tried once more
ConnectWifi_check_twice(t) ==
    /\ cw[t] = "check"
    /\ IF cw_result[t] # CY_RSLT_SUCCESS
         THEN IF RetriesExhausted(retry_count[t] + 1)
                THEN /\ ConnectWifi_return(t, U32(CY_RSLT_ERROR))
                     /\ UNCHANGED ip_printed
                ELSE /\ retry_count' = [retry_count EXCEPT ![t] = @ + 1]
                     /\ cw' = [cw EXCEPT ![t] = "fill"]
                     /\ UNCHANGED <<cw_result, cw_ret, ip_addr, ip_printed,
                                    wpc, cpc, result>>
         ELSE IF retry_count[t] = 0
                THEN /\ retry_count' = [retry_count EXCEPT ![t] = @ + 1]
                     /\ cw' = [cw EXCEPT ![t] = "fill"]
                     /\ UNCHANGED <<cw_result, cw_ret, ip_addr, ip_printed,
                                    wpc, cpc, result>>
                ELSE /\ ConnectWifi_return(t, CY_RSLT_SUCCESS)
                     /\ ip_printed' = [ip_printed EXCEPT ![t] =
                                          get_ip_string(ip_addr[t])]
    /\ UNCHANGED <<profile, conn_params, connected, trace>>
    /\ UNCHANGED <<argv, twt_params, td_requests, returned, cmd_result, ncmds,
                   conn_at_call, timerVars, registered, task_result>>

\* main.c:296-316
ConnectWifi_check(t) ==
    /\ cw[t] = "check"
    /\ IF cw_result[t] # CY_RSLT_SUCCESS
         THEN IF RetriesExhausted(retry_count[t] + 1)
                THEN /\ ConnectWifi_return(t, U32(CY_RSLT_ERROR))
                     /\ UNCHANGED ip_printed
                ELSE /\ retry_count' = [retry_count EXCEPT ![t] = @ + 1]
                     /\ cw' = [cw EXCEPT ![t] = "fill"]
                     /\ UNCHANGED <<cw_result, cw_ret, ip_addr, ip_printed,
                                    wpc, cpc, result>>
         ELSE /\ ConnectWifi_return(t, CY_RSLT_SUCCESS)
              /\ ip_printed' = [ip_printed EXCEPT ![t] =
                                   get_ip_string(ip_addr[t])]
    /\ UNCHANGED <<profile, conn_params, connected, trace>>
    /\ UNCHANGED <<argv, twt_params, td_requests, returned, cmd_result, ncmds,
                   conn_at_call, timerVars, registered, task_result>>

\* ----------------------------------------------------------- console_task
\* main.c:428-435 without the return of line 433
console_task_wcm_init_continue ==
    /\ Step("cy_wcm_init")
    /\ \E code \in {CY_RSLT_SUCCESS} \cup SvcErrCodes :
          /\ task_result' = code
          /\ wpc' = wpc + 1
    /\ UNCHANGED <<consoleVars, connectVars, timerVars, conn_params,
                   connected, registered, trace>>

\* main.c:428-435
console_task_wcm_init ==
    /\ Step("cy_wcm_init")
    /\ \E code \in {CY_RSLT_SUCCESS} \cup SvcErrCodes :
          /\ task_result' = code
          /\ wpc' = IF code = CY_RSLT_SUCCESS THEN wpc + 1 ELSE 0
    /\ UNCHANGED <<consoleVars, connectVars, timerVars, conn_params,
                   connected, registered, trace>>

\* main.c:438
console_task_connect ==
    /\ Step("ConnectWifi")
    /\ cw["worker"] = "none"
    /\ ConnectWifi_enter("worker", "CY_WCM_ITWT_PROFILE_NONE")
    /\ trace' = [trace EXCEPT !["worker"] = <<>>]
    /\ UNCHANGED <<workerVars, consoleVars, timerVars, connected, registered>>

\* main.c:440 with 337-384: the result is ignored by console_task; the itwt
\* table is registered only when every step succeeds.
command_console_add_command ==
    /\ Step("command_console_add_command")
    /\ \E ok \in BOOLEAN : registered' = ok
    /\ wpc' = wpc + 1
    /\ UNCHANGED task_result
    /\ trace' = [trace EXCEPT !["worker"] = <<>>]
    /\ ip_printed' = [ip_printed EXCEPT !["worker"] = <<>>]
    /\ UNCHANGED <<cw, retry_count, profile, cw_result, cw_ret, ip_addr>>
    /\ UNCHANGED <<consoleVars, timerVars, conn_params, connected>>

\* main.c:443
console_task_init_timer ==
    /\ Step("cy_rtos_init_timer")
    /\ wdt_timer' = "created"
    /\ wpc' = wpc + 1
    /\ UNCHANGED task_result
    /\ UNCHANGED <<consoleVars, connectVars, wdt_time, ticks, timer_left,
                   wdt_left, conn_params, connected, registered, trace>>

\* main.c:444
console_task_start_timer ==
    /\ Step("cy_rtos_start_timer")
    /\ wdt_timer' = IF wdt_timer = "created" THEN "armed" ELSE wdt_timer
    /\ timer_left' = IF wdt_timer = "created" THEN WdtPeriod ELSE timer_left
    /\ wpc' = wpc + 1
    /\ UNCHANGED task_result
    /\ UNCHANGED <<consoleVars, connectVars, wdt_time, ticks, wdt_left,
                   conn_params, connected, registered, trace>>

\* main.c:445
console_task_wdt_config ==
    /\ Step("thread_ap_watchdog_ConfigureTime")
    /\ wdt_time' = WDT_MARGIN
    /\ wdt_left' = WDT_MARGIN
    /\ wpc' = wpc + 1
    /\ UNCHANGED task_result
    /\ UNCHANGED <<consoleVars, connectVars, wdt_timer, ticks, timer_left,
                   conn_params, connected, registered, trace>>

\* ------------------------------------------------------------ wdt_handler
\* a timer callback that also clears conn_params
wdt_handler_clears ==
    /\ wdt_timer = "armed"
    /\ ticks < MaxTicks
    /\ wdt_time' = WDT_MARGIN
    /\ wdt_left' = WDT_MARGIN
    /\ timer_left' = WdtPeriod
    /\ ticks' = ticks + 1
    /\ conn_params' = ZeroedParams
    /\ UNCHANGED <<workerVars, consoleVars, connectVars, wdt_timer,
                   connected, registered, trace>>

\* main.c:401-404, run at every expiration of the armed periodic timer
wdt_handler ==
    /\ wdt_timer = "armed"
    /\ ticks < MaxTicks
    /\ wdt_time' = WDT_MARGIN
    /\ wdt_left' = WDT_MARGIN
    /\ timer_left' = WdtPeriod
    /\ ticks' = ticks + 1
    /\ UNCHANGED <<workerVars, consoleVars, connectVars, wdt_timer,
                   conn_params, connected, registered, trace>>

\* ------------------------------------------------------- command dispatch
\* a handler that halts the console thread instead of returning an error
HandlerReturn_halt(v) ==
    /\ cpc' = IF v # 0 THEN "halted" ELSE "done"
    /\ returned' = TRUE
    /\ cmd_result' = v

\* Return of a handler to the console library.
HandlerReturn(v) ==
    /\ cpc' = "done"
    /\ returned' = TRUE
    /\ cmd_result' = v

\* A line whose argument count is below the declared minimum is rejected by
\* the console library without calling the handler.
console_reject ==
    /\ registered
    /\ cpc = "wait"
    /\ ncmds < MaxCmds
    /\ \E line \in CommandLines :
          /\ Argc(line) - 1 < MinArgs(line[0])
          /\ argv' = line
    /\ ncmds' = ncmds + 1
    /\ HandlerReturn(-1)
    /\ trace' = [trace EXCEPT !["console"] = <<>>]
    /\ conn_at_call' = connected
    /\ UNCHANGED <<result, twt_params, td_requests>>
    /\ UNCHANGED <<workerVars, connectVars, timerVars, conn_params, connected,
                   registered>>

\* a console that takes the next line while ConnectWifi is still running
console_prompt_early ==
    /\ cpc \in {"done", "in_ConnectWifi"}
    /\ cpc' = "wait"
    /\ argv' = [i \in 0..0 |-> ""]
    /\ result' = CY_RSLT_SUCCESS
    /\ twt_params' = Garbage(0)
    /\ returned' = FALSE
    /\ cmd_result' = 0
    /\ conn_at_call' = FALSE
    /\ trace' = [trace EXCEPT !["console"] = <<>>]
    /\ cw_ret' = [cw_ret EXCEPT !["console"] = CY_RSLT_SUCCESS]
    /\ profile' = [profile EXCEPT !["console"] = "CY_WCM_ITWT_PROFILE_NONE"]
    /\ ip_printed' = [ip_printed EXCEPT !["console"] = <<>>]
    /\ UNCHANGED <<td_requests, ncmds, cw, retry_count, cw_result, ip_addr>>
    /\ UNCHANGED <<workerVars, timerVars, conn_params, connected, registered>>

\* The console library reports the status and waits for the next line; the
\* handler's frame and the line are gone.
console_prompt ==
    /\ cpc = "done"
    /\ cpc' = "wait"
    /\ argv' = [i \in 0..0 |-> ""]
    /\ result' = CY_RSLT_SUCCESS
    /\ twt_params' = Garbage(0)
    /\ returned' = FALSE
    /\ cmd_result' = 0
    /\ conn_at_call' = FALSE
    /\ trace' = [trace EXCEPT !["console"] = <<>>]
    /\ cw_ret' = [cw_ret EXCEPT !["console"] = CY_RSLT_SUCCESS]
    /\ profile' = [profile EXCEPT !["console"] = "CY_WCM_ITWT_PROFILE_NONE"]
    /\ ip_printed' = [ip_printed EXCEPT !["console"] = <<>>]
    /\ UNCHANGED <<td_requests, ncmds, cw, retry_count, cw_result, ip_addr>>
    /\ UNCHANGED <<workerVars, timerVars, conn_params, connected, registered>>

\* The console thread calls the handler registered for the command name
\* (main.c:124-132) with the tokens of the line.
console_dispatch ==
    /\ registered
    /\ cpc = "wait"
    /\ ncmds < MaxCmds
    /\ \E line \in CommandLines :
          /\ Argc(line) - 1 >= MinArgs(line[0])
          /\ argv' = line
          /\ cpc' = line[0]
    /\ \E g \in {0, 1} : twt_params' = Garbage(g)
    /\ ncmds' = ncmds + 1
    /\ returned' = FALSE
    /\ trace' = [trace EXCEPT !["console"] = <<>>]
    /\ conn_at_call' = connected
    /\ UNCHANGED <<result, td_requests, cmd_result>>
    /\ UNCHANGED <<workerVars, connectVars, timerVars, conn_params, connected,
                   registered>>

\* ------------------------------------------------------------- itwt_setup
\* main.c:180-186 without the test of cy_wcm_is_connected_to_ap(): the
\* handler always disconnects first
itwt_setup_entry_always_disconnect ==
    /\ cpc = "itwt_setup"
    /\ IF Argc(argv) < 1
         THEN HandlerReturn(-1)
         ELSE /\ cpc' = "setup_disconnect"
              /\ UNCHANGED <<returned, cmd_result>>
    /\ UNCHANGED <<argv, result, twt_params, td_requests, ncmds, conn_at_call>>
    /\ UNCHANGED <<workerVars, connectVars, timerVars, conn_params, connected,
                   registered, trace>>

\* main.c:180-186
itwt_setup_entry ==
    /\ cpc = "itwt_setup"
    /\ IF Argc(argv) < 1
         THEN HandlerReturn(-1)
         ELSE /\ cpc' = IF connected THEN "setup_disconnect"
                                     ELSE "setup_profile"
              /\ UNCHANGED <<returned, cmd_result>>
    /\ UNCHANGED <<argv, result, twt_params, td_requests, ncmds, conn_at_call>>
    /\ UNCHANGED <<workerVars, connectVars, timerVars, conn_params, connected,
                   registered, trace>>

\* main.c:189-192 without the return of line 191: a failed disconnect is
\* reported and the handler goes on to the profile test
itwt_setup_disconnect_no_return ==
    /\ cpc = "setup_disconnect"
    /\ \E code \in {CY_RSLT_SUCCESS} \cup SvcErrCodes :
          /\ result' = code
          /\ Log("console", Event("disconnect", code))
          /\ connected' = IF code = CY_RSLT_SUCCESS THEN FALSE ELSE connected
    /\ cpc' = "setup_profile"
    /\ UNCHANGED <<returned, cmd_result>>
    /\ UNCHANGED <<argv, twt_params, td_requests, ncmds, conn_at_call>>
    /\ UNCHANGED <<workerVars, connectVars, timerVars, conn_params, registered>>

\* main.c:189-192 with a failed disconnect tried a second time
itwt_setup_disconnect_retry ==
    /\ cpc = "setup_disconnect"
    /\ \E code \in {CY_RSLT_SUCCESS} \cup SvcErrCodes :
          /\ result' = code
          /\ Log("console", Event("disconnect", code))
          /\ IF code # CY_RSLT_SUCCESS
               THEN /\ IF Calls("console", "disconnect") = {}
                         THEN UNCHANGED <<cpc, returned, cmd_result>>
                         ELSE HandlerReturn(ToInt(code))
                    /\ UNCHANGED connected
               ELSE /\ connected' = FALSE
                    /\ cpc' = "setup_profile"
                    /\ UNCHANGED <<returned, cmd_result>>
    /\ UNCHANGED <<argv, twt_params, td_requests, ncmds, conn_at_call>>
    /\ UNCHANGED <<workerVars, connectVars, timerVars, conn_params, registered>>

\* main.c:189-192
itwt_setup_disconnect ==
    /\ cpc = "setup_disconnect"
    /\ \E code \in {CY_RSLT_SUCCESS} \cup SvcErrCodes :
          /\ result' = code
          /\ Log("console", Event("disconnect", code))
          /\ IF code # CY_RSLT_SUCCESS
               THEN /\ HandlerReturn(ToInt(code))
                    /\ UNCHANGED connected
               ELSE /\ connected' = FALSE
                    /\ cpc' = "setup_profile"
                    /\ UNCHANGED <<returned, cmd_result>>
    /\ UNCHANGED <<argv, twt_params, td_requests, ncmds, conn_at_call>>
    /\ UNCHANGED <<workerVars, connectVars, timerVars, conn_params, registered>>

\* argv[1] as read by strcmp; past the end of argv the value is arbitrary
ProfileToken == IF 1 \in DOMAIN argv THEN {argv[1]} ELSE Tokens

\* main.c:195-207
itwt_setup_profile ==
    /\ cpc = "setup_profile"
    /\ \E tok \in ProfileToken :
          IF tok = "idle"
            THEN /\ ConnectWifi_enter("console", "CY_WCM_ITWT_PROFILE_IDLE")
                 /\ cpc' = "in_ConnectWifi"
                 /\ UNCHANGED <<returned, cmd_result>>
            ELSE IF tok = "active"
              THEN /\ ConnectWifi_enter("console", "CY_WCM_ITWT_PROFILE_ACTIVE")
                   /\ cpc' = "in_ConnectWifi"
                   /\ UNCHANGED <<returned, cmd_result>>
              ELSE /\ HandlerReturn(-1)
                   /\ UNCHANGED <<connectVars, conn_params>>
    /\ UNCHANGED <<argv, result, twt_params, td_requests, ncmds, conn_at_call>>
    /\ UNCHANGED <<workerVars, timerVars, connected, registered, trace>>

\* a handler that restores the association it found when ConnectWifi failed
itwt_setup_return_restore ==
    /\ cpc = "setup_return"
    /\ HandlerReturn(ToInt(result))
    /\ connected' = IF result # CY_RSLT_SUCCESS /\ conn_at_call
                       THEN TRUE ELSE connected
    /\ UNCHANGED <<argv, result, twt_params, td_requests, ncmds, conn_at_call>>
    /\ UNCHANGED <<workerVars, connectVars, timerVars, conn_params,
                   registered, trace>>

\* main.c:209
itwt_setup_return ==
    /\ cpc = "setup_return"
    /\ HandlerReturn(ToInt(result))
    /\ UNCHANGED <<argv, result, twt_params, td_requests, ncmds, conn_at_call>>
    /\ UNCHANGED <<workerVars, connectVars, timerVars, conn_params, connected,
                   registered, trace>>

\* ---------------------------------------------------------- itwt_teardown
\* main.c:233-238
itwt_teardown_build ==
    /\ cpc = "itwt_teardown"
    /\ twt_params' = TeardownParams
    /\ cpc' = "teardown_call"
    /\ UNCHANGED <<argv, result, td_requests, returned, cmd_result, ncmds,
                   conn_at_call>>
    /\ UNCHANGED <<workerVars, connectVars, timerVars, conn_params, connected,
                   registered, trace>>

\* a teardown that also drops the association
itwt_teardown_call_disconnects ==
    /\ cpc = "teardown_call"
    /\ \E code \in {CY_RSLT_SUCCESS} \cup SvcErrCodes :
          /\ result' = code
          /\ Log("console", Event("teardown", code))
    /\ td_requests' = td_requests \cup {twt_params}
    /\ cpc' = "teardown_return"
    /\ connected' = FALSE
    /\ UNCHANGED <<argv, twt_params, returned, cmd_result, ncmds, conn_at_call>>
    /\ UNCHANGED <<workerVars, connectVars, timerVars, conn_params,
                   registered>>

\* main.c:240
itwt_teardown_call ==
    /\ cpc = "teardown_call"
    /\ \E code \in {CY_RSLT_SUCCESS} \cup SvcErrCodes :
          /\ result' = code
          /\ Log("console", Event("teardown", code))
    /\ td_requests' = td_requests \cup {twt_params}
    /\ cpc' = "teardown_return"
    /\ UNCHANGED <<argv, twt_params, returned, cmd_result, ncmds, conn_at_call>>
    /\ UNCHANGED <<workerVars, connectVars, timerVars, conn_params, connected,
                   registered>>

\* a handler that maps every failure to -1
itwt_teardown_status_flat(r) == IF r = CY_RSLT_SUCCESS THEN 0 ELSE -1

\* value handed back by itwt_teardown (main.c:246)
itwt_teardown_status(r) == ToInt(r)

\* main.c:241-246
itwt_teardown_return ==
    /\ cpc = "teardown_return"
    /\ HandlerReturn(itwt_teardown_status(result))
    /\ UNCHANGED <<argv, result, twt_params, td_requests, ncmds, conn_at_call>>
    /\ UNCHANGED <<workerVars, connectVars, timerVars, conn_params, connected,
                   registered, trace>>

\* ------------------------------------------------------------------- Next
Next ==
    \/ console_task_wcm_init
    \/ console_task_connect
    \/ command_console_add_command
    \/ console_task_init_timer
    \/ console_task_start_timer
    \/ console_task_wdt_config
    \/ wdt_handler
    \/ \E t \in Threads : ConnectWifi_fill(t)
    \/ \E t \in Threads : ConnectWifi_associate_ok(t)
    \/ \E t \in Threads : ConnectWifi_associate_fail(t)
    \/ \E t \in Threads : ConnectWifi_delay(t)
    \/ \E t \in Threads : ConnectWifi_check(t)
    \/ console_reject
    \/ console_dispatch
    \/ console_prompt
    \/ itwt_setup_entry
    \/ itwt_setup_disconnect
    \/ itwt_setup_profile
    \/ itwt_setup_return
    \/ itwt_teardown_build
    \/ itwt_teardown_call
    \/ itwt_teardown_return

Spec == Init /\ [][Next]_vars

\* Steps of ConnectWifi run by thread t.
ConnectWifi_step(t) ==
    \/ ConnectWifi_fill(t)
    \/ ConnectWifi_associate_ok(t)
    \/ ConnectWifi_associate_fail(t)
    \/ ConnectWifi_delay(t)
    \/ ConnectWifi_check(t)

\* Steps of the ConsoleTask thread.
WorkerNext ==
    \/ console_task_wcm_init
    \/ console_task_connect
    \/ command_console_add_command
    \/ console_task_init_timer
    \/ console_task_start_timer
    \/ console_task_wdt_config
    \/ ConnectWifi_step("worker")

\* Steps of a running handler on the console thread.
HandlerNext ==
    \/ itwt_setup_entry
    \/ itwt_setup_disconnect
    \/ itwt_setup_profile
    \/ itwt_setup_return
    \/ itwt_teardown_build
    \/ itwt_teardown_call
    \/ itwt_teardown_return
    \/ ConnectWifi_step("console")

\* The RTOS runs every thread that is ready: each service call and each
\* delay returns, and a thread that can take a step eventually takes it.
\* Nothing obliges the user to type a line or the timer to expire.
FairSpec == Spec /\ WF_vars(WorkerNext) /\ WF_vars(HandlerNext)

\* ConnectWifi about to test the result of a successful associate call that
\* assigned any address built from the octets of IpOctets.
IpOctets == {0, 1, 9, 10, 99, 100, 255}

IpInputs == {[hi |-> b3 * 256 + b2, lo |-> b1 * 256 + b0] :
                 b0 \in IpOctets, b1 \in IpOctets, b2 \in IpOctets,
                 b3 \in IpOctets}

InitIp ==
    /\ wpc = 2
    /\ task_result = CY_RSLT_SUCCESS
    /\ cpc = "wait"
    /\ cw = [t \in Threads |-> IF t = "worker" THEN "check" ELSE "none"]
    /\ retry_count = [t \in Threads |-> 0]
    /\ profile = [t \in Threads |-> "CY_WCM_ITWT_PROFILE_NONE"]
    /\ cw_result = [t \in Threads |-> CY_RSLT_SUCCESS]
    /\ cw_ret = [t \in Threads |-> CY_RSLT_SUCCESS]
    /\ \E ip \in IpInputs :
          /\ ip_addr = [t \in Threads |-> IF t = "worker" THEN ip ELSE U32(0)]
          /\ trace = [t \in Threads |->
                        IF t = "worker"
                          THEN <<[op |-> "associate", ok |-> TRUE,
                                  code |-> CY_RSLT_SUCCESS,
                                  params |->
                                    FilledParams("CY_WCM_ITWT_PROFILE_NONE"),
                                  ip |-> ip],
                                 [op |-> "delay", ok |-> TRUE,
                                  code |-> CY_RSLT_SUCCESS,
                                  params |->
                                    FilledParams("CY_WCM_ITWT_PROFILE_NONE"),
                                  ip |-> U32(0)]>>
                          ELSE <<>>]
    /\ ip_printed = [t \in Threads |-> <<>>]
    /\ conn_params = FilledParams("CY_WCM_ITWT_PROFILE_NONE")
    /\ connected = TRUE
    /\ registered = FALSE
    /\ wdt_timer = "none"
    /\ wdt_time = 0
    /\ ticks = 0
    /\ timer_left = 0
    /\ wdt_left = 0
    /\ argv = [i \in 0..0 |-> ""]
    /\ result = CY_RSLT_SUCCESS
    /\ twt_params = Garbage(0)
    /\ td_requests = {}
    /\ returned = FALSE
    /\ cmd_result = 0
    /\ ncmds = 0
    /\ conn_at_call = FALSE

NextIp == ConnectWifi_check("worker")

SpecIp == InitIp /\ [][NextIp]_vars

\* One unit of time passes. An armed timer expires on time: time does not go
\* past an expiration before wdt_handler has run.
AdvanceTime ==
    /\ wdt_timer = "armed" => timer_left > 0
    /\ timer_left' = IF wdt_timer = "armed" THEN timer_left - 1 ELSE timer_left
    /\ wdt_left' = IF wdt_left > 0 THEN wdt_left - 1 ELSE wdt_left
    /\ UNCHANGED <<workerVars, consoleVars, connectVars, wdt_timer, wdt_time,
                   ticks, conn_params, connected, registered, trace>>

\* main.c:401-404 run when the interval of main.c:444 has elapsed
wdt_expiry == timer_left = 0 /\ wdt_handler

\* console_task and the timer under a clock.
NextWdt ==
    \/ WorkerNext
    \/ wdt_expiry
    \/ AdvanceTime

SpecWdt == Init /\ [][NextWdt]_vars

TypeOK ==
    /\ wpc \in 0..Len(console_task_order)
    /\ task_result \in {CY_RSLT_SUCCESS} \cup SvcErrCodes
    /\ cw \in [Threads -> {"none", "fill", "associate", "delay", "check"}]
    /\ retry_count \in [Threads -> 0..MAX_WIFI_CONN_RETRIES]
    /\ connected \in BOOLEAN
    /\ ticks \in 0..MaxTicks
    /\ timer_left \in 0..WdtPeriod
    /\ wdt_left \in 0..WDT_MARGIN
    /\ ncmds \in 0..MaxCmds

\* ================================================================ claims
\* The console thread is in (or has just returned from) a call of the
\* itwt_setup handler with a profile token.
SetupCalled == cpc # "wait" /\ argv[0] = "itwt_setup" /\ 1 \in DOMAIN argv

TeardownCalled == cpc # "wait" /\ argv[0] = "itwt_teardown"

\* Thread t's last ConnectWifi call has returned and its trace is still kept.
ConnectReturned(t) == cw[t] = "none" /\ Calls(t, "associate") # {}

\* C1: for every profile token other than "active" and "idle", from every
\* association state, itwt_setup returns -1, makes no associate and no
\* disconnect call and leaves the association state as it was.
C1_InvalidProfileNoSideEffect ==
    (SetupCalled /\ returned /\ argv[1] \notin {"active", "idle"})
        => /\ cmd_result = -1
           /\ Calls("console", "associate") = {}
           /\ Calls("console", "disconnect") = {}
           /\ connected = conn_at_call

\* C2: when the station is connected at the call of itwt_setup, disconnect is
\* called exactly once and before any associate call; when that disconnect
\* fails, no associate call is made and the disconnect's code is returned.
C2_DisconnectOnceBeforeConnect ==
    (SetupCalled /\ conn_at_call) =>
        /\ Cardinality(Calls("console", "disconnect")) <= 1
        /\ Calls("console", "associate") # {} =>
               /\ trace["console"][1].op = "disconnect"
               /\ trace["console"][1].ok
        /\ cpc \in {"setup_profile", "in_ConnectWifi", "setup_return", "done"}
               => Calls("console", "disconnect") = {1}
        /\ (returned /\ ~trace["console"][1].ok) =>
               /\ Calls("console", "associate") = {}
               /\ U32(cmd_result) = trace["console"][1].code

\* C2 witness: itwt_setup idle, called while connected, has returned after
\* one successful disconnect followed by associate calls.
C2_Witness ==
    /\ SetupCalled /\ conn_at_call /\ returned
    /\ argv[1] = "idle"
    /\ Calls("console", "disconnect") = {1}
    /\ trace["console"][1].ok
    /\ Cardinality(Calls("console", "associate")) >= 1

\* C3: one call of ConnectWifi makes at most MAX_WIFI_CONN_RETRIES associate
\* calls; when all of them fail it returns CY_RSLT_ERROR (-1) after exactly
\* MAX_WIFI_CONN_RETRIES calls.
C3_BoundedRetries ==
    \A t \in Threads :
        /\ Cardinality(Calls(t, "associate")) <= MAX_WIFI_CONN_RETRIES
        /\ (ConnectReturned(t)
              /\ \A i \in Calls(t, "associate") : ~trace[t][i].ok) =>
               /\ Cardinality(Calls(t, "associate")) = 15
               /\ cw_ret[t] = U32(-1)
               /\ ToInt(cw_ret[t]) = -1

\* C3 witness: a ConnectWifi call of the console thread returned after 15
\* failed associate calls.
C3_Witness ==
    /\ ConnectReturned("console")
    /\ Cardinality(Calls("console", "associate")) = 15
    /\ \A i \in Calls("console", "associate") : ~trace["console"][i].ok

\* C4: the 500 ms delay is applied only after a failed associate call that is
\* followed by another attempt: never after a successful attempt and never
\* after the last failed attempt before ConnectWifi returns.
C4_DelayOnlyBetweenAttempts ==
    \A t \in Threads :
        /\ \A i \in Calls(t, "delay") :
               /\ i > 1
               /\ trace[t][i - 1].op = "associate"
               /\ ~trace[t][i - 1].ok
        /\ ConnectReturned(t) => trace[t][Len(trace[t])].op # "delay"

\* C5: whenever a thread is inside the ConnectWifi retry loop, called at boot
\* or from itwt_setup, the periodic timer is armed.
C5_TimerArmedDuringConnect ==
    \A t \in Threads : cw[t] # "none" => wdt_timer = "armed"

\* C6: every request handed to the teardown service has negotiation type 0,
\* flow id 0, broadcast TWT id 0 and the teardown-all flag cleared, whatever
\* ran before.
C6_TeardownRequestFixed ==
    /\ \A r \in td_requests :
           /\ r.negotiation_type = 0
           /\ r.flow_id = 0
           /\ r.bcast_twt_id = 0
           /\ r.teardown_all_twt = 0
    /\ Calls("console", "teardown") # {} => td_requests # {}

\* C6 witness: a teardown request was issued after a setup with the idle
\* profile had written conn_params.
C6_Witness ==
    /\ TeardownCalled /\ returned
    /\ td_requests # {}
    /\ conn_params.itwt_profile = "CY_WCM_ITWT_PROFILE_IDLE"

\* C7: a call of itwt_teardown issues exactly one teardown request, in every
\* association state, never a second one, and returns the service's code
\* unchanged: 0 on success, the service's non-zero code otherwise.
C7_TeardownOnceResultUnchanged ==
    TeardownCalled =>
        /\ Cardinality(Calls("console", "teardown")) <= 1
        /\ returned =>
               /\ Calls("console", "teardown") = {1}
               /\ U32(cmd_result) = trace["console"][1].code
               /\ cmd_result = 0 <=> trace["console"][1].ok

\* C7 witness: itwt_teardown returned a service failure while the station was
\* not associated after a failed setup with the active profile.
C7_Witness ==
    /\ TeardownCalled /\ returned
    /\ ~connected
    /\ conn_params.itwt_profile = "CY_WCM_ITWT_PROFILE_ACTIVE"
    /\ cmd_result # 0
    /\ cmd_result # -1

\* C8: ConnectWifi starts only when the station is not associated, the
\* station stays not associated until an associate call succeeds, and at the
\* return the station is associated exactly when CY_RSLT_SUCCESS is returned
\* and not associated exactly when CY_RSLT_ERROR is returned.
C8_ConnectTransitions ==
    [][\A t \in Threads :
          /\ (cw[t] = "none" /\ cw'[t] # "none") => ~connected
          /\ (cw[t] # "none" /\ cw'[t] # "none" /\ connected) => connected'
          /\ (cw[t] \in {"fill", "associate"}) => ~connected
          /\ (cw[t] # "none" /\ cw'[t] = "none") =>
                 /\ cw_ret'[t] \in {CY_RSLT_SUCCESS, U32(CY_RSLT_ERROR)}
                 /\ connected' <=> cw_ret'[t] = CY_RSLT_SUCCESS
                 /\ ~connected' <=> cw_ret'[t] = U32(CY_RSLT_ERROR)]_vars

\* C8 witness: a ConnectWifi call made by itwt_setup from the connected state
\* (after the disconnect) has returned CY_RSLT_ERROR with the station not
\* associated.
C8_Witness ==
    /\ ConnectReturned("console")
    /\ conn_at_call
    /\ cw_ret["console"] = U32(CY_RSLT_ERROR)
    /\ ~connected

\* C9: at most one thread is inside ConnectWifi at any time, and no command
\* handler runs while the boot-time ConnectWifi is still running.
C9_OneAttemptInFlight ==
    /\ ~(cw["worker"] # "none" /\ cw["console"] # "none")
    /\ (Step("ConnectWifi") \/ cw["worker"] # "none") =>
           /\ cpc = "wait"
           /\ ncmds = 0

\* C9 witness: an associate call of a handler is pending while the worker is
\* still between registering the commands and its idle loop.
C9_Witness ==
    /\ cw["console"] = "associate"
    /\ Step("cy_rtos_start_timer")
    /\ cw["worker"] = "none"

\* C10: an expiration of the timer changes only the watchdog deadline: the
\* association state, conn_params, the retry counters and every other
\* variable of the connect loop and of the handlers are left unchanged.
C10_TickTouchesOnlyDeadline ==
    [][ticks' # ticks =>
          UNCHANGED <<connected, conn_params, retry_count, cw, profile,
                      cw_result, cw_ret, wpc, cpc, result, trace>>]_vars

\* C10 witness: the timer has expired while the console thread is inside the
\* retry loop after a failed attempt.
C10_Witness ==
    /\ ticks > 0
    /\ cw["console"] = "delay"
    /\ retry_count["console"] > 0

\* Index of the first associate call in thread t's trace.
FirstAssociate(t) ==
    CHOOSE i \in Calls(t, "associate") : \A j \in Calls(t, "associate") : i <= j

\* Some associate call of the console thread's current invocation succeeded.
AssociateSucceeded ==
    \E i \in Calls("console", "associate") : trace["console"][i].ok

\* C11: itwt_setup with a valid profile returns 0 exactly when an associate
\* call succeeded; otherwise the disconnect's error code when the disconnect
\* failed and -1 when the retries are exhausted.  With an invalid profile or
\* too few arguments it returns -1.
C11_SetupStatus ==
    (returned /\ argv[0] = "itwt_setup") =>
        IF 1 \in DOMAIN argv /\ argv[1] \in {"active", "idle"}
          THEN /\ cmd_result = 0 <=> AssociateSucceeded
               /\ (Calls("console", "disconnect") # {}
                     /\ ~trace["console"][1].ok) =>
                      /\ cmd_result # 0
                      /\ U32(cmd_result) = trace["console"][1].code
               /\ (Calls("console", "associate") # {} /\ ~AssociateSucceeded)
                     => cmd_result = -1
          ELSE cmd_result = -1

\* C12: every associate call carries the profile that was asked for: NONE at
\* boot, IDLE for the token "idle", ACTIVE for "active", whatever an earlier
\* connect left in conn_params; itwt_setup makes no other call to the service
\* than disconnect and associate.
C12_AssociateCarriesProfile ==
    /\ \A i \in Calls("worker", "associate") :
           trace["worker"][i].params.itwt_profile = "CY_WCM_ITWT_PROFILE_NONE"
    /\ Calls("console", "associate") # {} =>
           /\ SetupCalled
           /\ argv[1] \in {"active", "idle"}
           /\ \A i \in Calls("console", "associate") :
                  trace["console"][i].params.itwt_profile =
                      IF argv[1] = "idle" THEN "CY_WCM_ITWT_PROFILE_IDLE"
                                          ELSE "CY_WCM_ITWT_PROFILE_ACTIVE"
    /\ SetupCalled =>
           \A i \in DOMAIN trace["console"] :
               trace["console"][i].op \in {"disconnect", "associate", "delay"}

\* C12 witness: itwt_setup active ran after an association made with the idle
\* profile (seen in conn_params at the disconnect) and made associate calls.
C12_Witness ==
    /\ SetupCalled /\ returned
    /\ argv[1] = "active"
    /\ Calls("console", "disconnect") = {1}
    /\ trace["console"][1].params.itwt_profile = "CY_WCM_ITWT_PROFILE_IDLE"
    /\ Cardinality(Calls("console", "associate")) >= 2

\* C13: itwt_setup active, called while disconnected and with the first
\* associate call succeeding, makes no disconnect call and exactly one
\* associate call, carrying ACTIVE, and returns 0 with the assigned address
\* printed.
C13_SetupActiveScenario ==
    (SetupCalled /\ returned /\ argv[1] = "active" /\ ~conn_at_call
       /\ Calls("console", "associate") # {}
       /\ trace["console"][FirstAssociate("console")].ok) =>
        /\ Calls("console", "disconnect") = {}
        /\ Calls("console", "associate") = {1}
        /\ trace["console"][1].params.itwt_profile =
               "CY_WCM_ITWT_PROFILE_ACTIVE"
        /\ cmd_result = 0
        /\ connected
        /\ ip_printed["console"] # <<>>
        /\ ip_printed["console"] = get_ip_string(trace["console"][1].ip)

\* C13 witness: the scenario has run to the handler's return.
C13_Witness ==
    /\ SetupCalled /\ returned /\ argv[1] = "active" /\ ~conn_at_call
    /\ Calls("console", "associate") = {1}
    /\ trace["console"][1].ok
    /\ cmd_result = 0

\* C14: when the disconnect call fails, the station is still associated, the
\* disconnect is not tried again (one disconnect call, nothing after it) and
\* the handler returns the disconnect's error.
C14_DisconnectFailure ==
    (SetupCalled /\ \E i \in Calls("console", "disconnect") :
                        ~trace["console"][i].ok) =>
        /\ returned
        /\ connected
        /\ Len(trace["console"]) = 1
        /\ Calls("console", "disconnect") = {1}
        /\ U32(cmd_result) = trace["console"][1].code
        /\ cmd_result # 0

\* C14 witness: itwt_setup idle returned after its disconnect failed.
C14_Witness ==
    /\ SetupCalled /\ returned /\ argv[1] = "idle"
    /\ Calls("console", "disconnect") = {1}
    /\ ~trace["console"][1].ok
    /\ connected

\* Positions of the console thread inside itwt_setup and inside itwt_teardown.
SetupPositions == {"itwt_setup", "setup_disconnect", "setup_profile",
                   "in_ConnectWifi", "setup_return"}

TeardownPositions == {"itwt_teardown", "teardown_call", "teardown_return"}

\* C15: no handler error ends the console: after a handler returned a
\* non-zero status the console is back at its prompt step with the commands
\* still registered, the next line can be dispatched, the worker has not
\* returned, and an armed timer stays armed and can still expire.
C15_ErrorsNotFatal ==
    /\ []((returned /\ cmd_result # 0) =>
              /\ cpc = "done"
              /\ registered
              /\ wpc # 0
              /\ ENABLED console_prompt
              /\ (wdt_timer = "armed" /\ ticks < MaxTicks)
                     => ENABLED wdt_handler)
    /\ []((cpc = "wait" /\ ncmds > 0 /\ ncmds < MaxCmds)
              => ENABLED console_dispatch)
    /\ [][(registered => registered')
            /\ (wdt_timer = "armed" => wdt_timer' = "armed")]_vars

\* C15 witness: itwt_teardown is running as the second command, after
\* itwt_setup idle ended with the retries exhausted, and the timer has
\* expired.
C15_Witness ==
    /\ cpc = "teardown_call"
    /\ ncmds = 2
    /\ ~connected
    /\ conn_params.itwt_profile = "CY_WCM_ITWT_PROFILE_IDLE"
    /\ ticks > 0

\* C16: itwt_setup without a profile token is rejected with -1 before the
\* handler does anything: no disconnect call, no associate call, and the
\* handler never runs without the token it would read.
C16_TooFewArgumentsRejected ==
    /\ (returned /\ argv[0] = "itwt_setup" /\ Argc(argv) - 1 < 1) =>
           /\ cmd_result = -1
           /\ trace["console"] = <<>>
           /\ cw["console"] = "none"
           /\ connected = conn_at_call
    /\ cpc \in SetupPositions => 1 \in DOMAIN argv

\* C16 witness: the line "itwt_setup" was rejected while the station was
\* associated.
C16_Witness ==
    /\ returned /\ argv[0] = "itwt_setup" /\ Argc(argv) = 1
    /\ cpc = "done"
    /\ conn_at_call

\* C17: one handler, the one named by the line, runs per dispatched line; the
\* next line is taken only after the handler (with its ConnectWifi loop) has
\* returned, and the running handler's line is never replaced.
C17_OneHandlerAtATime ==
    /\ [](cpc \in {"wait", "done"} => cw["console"] = "none")
    /\ [](cpc \in SetupPositions => argv[0] = "itwt_setup")
    /\ [](cpc \in TeardownPositions => argv[0] = "itwt_teardown")
    /\ [][ncmds' # ncmds =>
             /\ ncmds' = ncmds + 1
             /\ cpc = "wait"
             /\ cw["console"] = "none"
             /\ cpc' \in {argv'[0], "done"}]_vars
    /\ [][argv' # argv => cpc \in {"wait", "done"}]_vars

\* C17 witness: the second line is being handled, by itwt_setup inside its
\* retry loop.
C17_Witness ==
    /\ ncmds = 2
    /\ cpc = "in_ConnectWifi"
    /\ cw["console"] = "check"
    /\ retry_count["console"] >= 1

\* C18: every call of ConnectWifi, itwt_setup and itwt_teardown returns, and
\* ConnectWifi never returns before its first successful or its 15th failed
\* associate call.
C18_Terminates ==
    /\ \A t \in Threads : (cw[t] # "none") ~> (cw[t] = "none")
    /\ (cpc \in SetupPositions \cup TeardownPositions) ~> (cpc = "done")
    /\ [](\A t \in Threads :
            ConnectReturned(t) =>
                LET n == Len(trace[t])
                    last == CHOOSE i \in Calls(t, "associate") :
                                \A j \in Calls(t, "associate") : j <= i
                IN  \/ trace[t][last].ok
                    \/ Cardinality(Calls(t, "associate"))
                           = MAX_WIFI_CONN_RETRIES)

\* C18 witness: itwt_setup has returned after ConnectWifi used its whole
\* budget.
C18_Witness ==
    /\ SetupCalled /\ returned
    /\ Cardinality(Calls("console", "associate")) = MAX_WIFI_CONN_RETRIES
    /\ cmd_result = -1

\* C19: SSID, password, security and band are the same in every associate
\* call; conn_params is written only by a thread entering ConnectWifi or at
\* the top of its loop, and at each associate call it holds the configured
\* values with the caller's profile.
C19_ParamsFixedAndOwned ==
    /\ [](\A t \in Threads : \A i \in Calls(t, "associate") :
             /\ trace[t][i].params.SSID = WIFI_SSID
             /\ trace[t][i].params.password = WIFI_KEY
             /\ trace[t][i].params.security = WIFI_SECURITY
             /\ trace[t][i].params.band = WIFI_BAND)
    /\ [](\A t \in Threads :
             cw[t] = "associate" =>
                 /\ conn_params.SSID = WIFI_SSID
                 /\ conn_params.password = WIFI_KEY
                 /\ conn_params.security = WIFI_SECURITY
                 /\ conn_params.band = WIFI_BAND
                 /\ conn_params.itwt_profile = profile[t])
    /\ [][conn_params' # conn_params =>
             \E t \in Threads :
                 \/ cw[t] = "none" /\ cw'[t] = "fill"
                 \/ cw[t] = "fill" /\ cw'[t] = "associate"]_vars

\* C19 witness: a retry of itwt_setup's ConnectWifi is about to associate,
\* as the second command of the run.
C19_Witness ==
    /\ cw["console"] = "associate"
    /\ retry_count["console"] >= 1
    /\ profile["console"] = "CY_WCM_ITWT_PROFILE_IDLE"
    /\ ncmds = 2

\* Reading an address text back: its dots, its four fields and their values.
Dots(txt) == {i \in 1..Len(txt) : txt[i] = "."}

NthDot(txt, k) ==
    CHOOSE i \in Dots(txt) : Cardinality({j \in Dots(txt) : j < i}) = k - 1

Field(txt, k) ==
    SubSeq(txt, IF k = 1 THEN 1 ELSE NthDot(txt, k - 1) + 1,
                IF k = 4 THEN Len(txt) ELSE NthDot(txt, k) - 1)

IsDigits(f) == f # <<>> /\ \A i \in 1..Len(f) : \E d \in 0..9 : f[i] = Digit(d)

RECURSIVE ParseDec(_)
ParseDec(f) ==
    IF f = <<>> THEN 0
    ELSE ParseDec(SubSeq(f, 1, Len(f) - 1)) * 10
             + (CHOOSE d \in 0..9 : f[Len(f)] = Digit(d))

\* The address assigned by the successful associate call of thread t.
AssignedIp(t) ==
    trace[t][CHOOSE i \in Calls(t, "associate") : trace[t][i].ok].ip

\* C20: the address text printed after a successful connect has the form
\* d.d.d.d: three dots, four decimal fields in 0..255, the k-th field being
\* byte k-1 of the 32-bit address (least significant first), and it fits the
\* buffer of IP_STR_LEN characters with its terminator.
C20_AddressText ==
    \A t \in Threads :
        ip_printed[t] # <<>> =>
            LET txt == ip_printed[t] IN
            /\ Len(txt) + 1 <= IP_STR_LEN
            /\ IP_STR_LEN = 16
            /\ Cardinality(Dots(txt)) = 3
            /\ \A k \in 1..4 :
                   /\ IsDigits(Field(txt, k))
                   /\ ParseDec(Field(txt, k)) \in 0..255
                   /\ ParseDec(Field(txt, k)) = Byte(AssignedIp(t), k - 1)

\* C20 witness: a printed address that fills the buffer, 15 characters with
\* fields of different values.
C20_Witness ==
    /\ Len(ip_printed["worker"]) = 15
    /\ Byte(AssignedIp("worker"), 0) = 100
    /\ Byte(AssignedIp("worker"), 3) = 255

LastAssociate(t) ==
    CHOOSE i \in Calls(t, "associate") : \A j \in Calls(t, "associate") : j <= i

\* C22: the worker initialises the connection manager, then runs ConnectWifi
\* with profile NONE until it succeeds or has failed 15 times, and registers
\* the commands only afterwards; no handler is called before that.
C22_BootOrder ==
    /\ Step("cy_wcm_init") =>
           /\ cw["worker"] = "none"
           /\ trace["worker"] = <<>>
           /\ ~registered
    /\ cw["worker"] # "none" =>
           /\ Step("ConnectWifi")
           /\ profile["worker"] = "CY_WCM_ITWT_PROFILE_NONE"
           /\ ~registered
    /\ Step("command_console_add_command") =>
           /\ ~registered
           /\ ConnectReturned("worker")
           /\ \A i \in Calls("worker", "associate") :
                  trace["worker"][i].params.itwt_profile
                      = "CY_WCM_ITWT_PROFILE_NONE"
           /\ \/ trace["worker"][LastAssociate("worker")].ok
              \/ Cardinality(Calls("worker", "associate"))
                     = MAX_WIFI_CONN_RETRIES
    /\ registered =>
           /\ cw["worker"] = "none"
           /\ ~Step("cy_wcm_init")
           /\ ~Step("ConnectWifi")
           /\ ~Step("command_console_add_command")
    /\ (cpc # "wait" \/ ncmds > 0) => registered

\* C22 witness: the first handler has just been called, right after the
\* registration that followed a boot-time connect without success.
C22_Witness ==
    /\ cpc = "itwt_setup"
    /\ ncmds = 1
    /\ Step("cy_rtos_init_timer")
    /\ cw_ret["worker"] = U32(CY_RSLT_ERROR)

\* C23: a step of itwt_teardown changes nothing of the connection: it makes
\* no associate and no disconnect call, leaves the association state and
\* conn_params as they were, and the request it hands over is the one it has
\* just built, whatever its frame held when it was called.
C23_TeardownFrame ==
    /\ [](TeardownCalled =>
            /\ Calls("console", "associate") = {}
            /\ Calls("console", "disconnect") = {}
            /\ connected = conn_at_call
            /\ cw["console"] = "none")
    /\ [][(cpc \in TeardownPositions) =>
            UNCHANGED <<connected, conn_params, cw, retry_count, profile,
                        registered>>]_vars
    /\ [][cpc = "itwt_teardown" /\ cpc' # cpc =>
            twt_params' = TeardownParams]_vars
    /\ [][td_requests' # td_requests =>
            /\ cpc = "teardown_call"
            /\ twt_params = TeardownParams
            /\ td_requests' = td_requests \cup {TeardownParams}]_vars
    /\ [](cpc = "wait" => twt_params = Garbage(0))

\* C23 witness: a second teardown has returned while associated, its frame
\* having held other values when it was called.
C23_Witness ==
    /\ cpc = "done"
    /\ argv[0] = "itwt_teardown"
    /\ ncmds = 2
    /\ connected
    /\ td_requests # {}
    /\ ticks > 0

\* C24: ConnectWifi stops at the first successful associate call: no
\* associate call follows a successful one, it returns CY_RSLT_SUCCESS
\* exactly when one of its at most 15 calls succeeded, and the number of its
\* calls is the index of the first success, or 15 when there is none.
C24_StopsAtFirstSuccess ==
    \A t \in Threads :
        LET A == Calls(t, "associate")
            Ok == {i \in A : trace[t][i].ok}
        IN  /\ Cardinality(A) <= MAX_WIFI_CONN_RETRIES
            /\ \A i \in Ok : \A j \in A : j <= i
            /\ Cardinality(Ok) <= 1
            /\ ConnectReturned(t) =>
                   /\ (cw_ret[t] = CY_RSLT_SUCCESS) <=> (Ok # {})
                   /\ (cw_ret[t] # CY_RSLT_SUCCESS) =>
                          /\ cw_ret[t] = U32(CY_RSLT_ERROR)
                          /\ Cardinality(A) = MAX_WIFI_CONN_RETRIES
                   /\ \A i \in Ok :
                          Cardinality(A) = Cardinality({j \in A : j <= i})

\* C24 witness: the boot-time ConnectWifi has returned success after exactly
\* three associate calls, the third being the successful one.
C24_Witness ==
    /\ ConnectReturned("worker")
    /\ cw_ret["worker"] = CY_RSLT_SUCCESS
    /\ Cardinality(Calls("worker", "associate")) = 3
    /\ trace["worker"][LastAssociate("worker")].ok

\* C25: itwt_setup does not roll back: called while associated with "active"
\* or "idle", after a successful disconnect and 15 failed associate calls it
\* returns -1 and the station is not associated.
C25_NoRollback ==
    (/\ SetupCalled
     /\ returned
     /\ conn_at_call
     /\ argv[1] \in {"active", "idle"}
     /\ \E i \in Calls("console", "disconnect") : trace["console"][i].ok
     /\ \A i \in Calls("console", "associate") : ~trace["console"][i].ok)
    => /\ Cardinality(Calls("console", "associate")) = MAX_WIFI_CONN_RETRIES
       /\ cmd_result = -1
       /\ ~connected

\* C25 witness: itwt_setup active, called while associated, has returned -1
\* after the disconnect and 15 failed associate calls.
C25_Witness ==
    /\ cpc = "done"
    /\ SetupCalled
    /\ argv[1] = "active"
    /\ conn_at_call
    /\ Cardinality(Calls("console", "associate")) = MAX_WIFI_CONN_RETRIES
    /\ cmd_result = -1
    /\ ~connected

\* C26: every call of ConnectWifi starts with retry_count 0 and counts only
\* its own failed attempts, so each call, at boot or from itwt_setup and
\* whatever ran before, makes 15 associate calls before it gives up.
C26_BudgetPerInvocation ==
    /\ [][\A t \in Threads :
            cw[t] = "none" /\ cw'[t] # "none" => retry_count'[t] = 0]_vars
    /\ [](\A t \in Threads :
            LET n == Cardinality(Calls(t, "associate")) IN
            /\ cw[t] \in {"fill", "associate"} => retry_count[t] = n
            /\ cw[t] \in {"delay", "check"} => retry_count[t] = n - 1
            /\ (/\ ConnectReturned(t)
                /\ \A i \in Calls(t, "associate") : ~trace[t][i].ok)
               => n = MAX_WIFI_CONN_RETRIES)

\* C26 witness: the second command is an itwt_setup called while not
\* associated, and its ConnectWifi is at its 15th associate call.
C26_Witness ==
    /\ ncmds = 2
    /\ SetupCalled
    /\ ~conn_at_call
    /\ cw["console"] = "associate"
    /\ retry_count["console"] = MAX_WIFI_CONN_RETRIES - 1

\* The boot-time ConnectWifi has returned CY_RSLT_ERROR.
BootFailed == cw_ret["worker"] = U32(CY_RSLT_ERROR)

\* C27: a boot-time ConnectWifi that used up its retries does not end the
\* worker: the worker goes on to register the commands, to create and start
\* the timer and to its idle loop, and an associate call of a later
\* itwt_setup can succeed.
C27_BootFailureNotFatal ==
    /\ [](BootFailed => wpc # 0)
    /\ [](BootFailed /\ Step("command_console_add_command") =>
             ENABLED (command_console_add_command /\ registered'))
    /\ [](BootFailed /\ Step("cy_rtos_init_timer") =>
             ENABLED console_task_init_timer)
    /\ [](BootFailed /\ Step("cy_rtos_start_timer") =>
             ENABLED (console_task_start_timer /\ wdt_timer' = "armed"))
    /\ [](BootFailed /\ Step("thread_ap_watchdog_ConfigureTime") =>
             ENABLED console_task_wdt_config)
    /\ [](BootFailed /\ Step("idle") => wdt_timer = "armed")
    /\ [](BootFailed /\ registered /\ cpc = "wait" /\ ncmds < MaxCmds =>
             ENABLED console_dispatch)
    /\ [](BootFailed /\ cw["console"] = "associate" =>
             ENABLED ConnectWifi_associate_ok("console"))

\* C27 witness: after a failed boot-time connect the worker is in its idle
\* loop with the timer armed, and the first command, an itwt_setup, has
\* returned 0 with the station associated.
C27_Witness ==
    /\ BootFailed
    /\ Step("idle")
    /\ wdt_timer = "armed"
    /\ ncmds = 1
    /\ SetupCalled /\ returned
    /\ cmd_result = 0
    /\ connected

\* cy_wcm_init has returned an error to console_task.
WcmInitFailed == task_result # CY_RSLT_SUCCESS

\* C28: when cy_wcm_init fails the worker ends there: no associate call has
\* been or will be made, the commands are never registered and the timer is
\* never created or started; nothing else runs afterwards.
C28_InitFailureEndsWorker ==
    /\ [](WcmInitFailed =>
            /\ wpc = 0
            /\ trace = [t \in Threads |-> <<>>]
            /\ cw = [t \in Threads |-> "none"]
            /\ conn_params = ZeroedParams
            /\ ~connected
            /\ ~registered
            /\ wdt_timer = "none"
            /\ wdt_time = 0
            /\ ticks = 0
            /\ cpc = "wait"
            /\ ncmds = 0
            /\ ~ENABLED Next)
    /\ [](wpc = 0 => WcmInitFailed)
    /\ [][wpc = 0 => wpc' = 0]_vars

\* C28 witness: the worker has returned after cy_wcm_init reported an error.
C28_Witness ==
    /\ wpc = 0
    /\ task_result \in SvcErrCodes
    /\ ~registered
    /\ wdt_timer = "none"

====
